---- MODULE Spec2Model ----
(***************************************************************************)
(* Model of ssi_stock_mcp_server/server.py: the eight MCP tools, their     *)
(* request validation, the single upstream call, and the seven response    *)
(* normalizers (_process_*_response).                                      *)
(*                                                                         *)
(* Python values are encoded as records of one shape, [t, n, s]:           *)
(*   t  the Python type ("int", "float", "str", "none", "list"),           *)
(*   n  the number: an int's value, a float's value in units of            *)
(*      one tenth, a list's length,                                     *)
(*   s  a str's characters, as a sequence of one-character strings.        *)
(* A dict is a function from the set of its keys to such values.           *)
(***************************************************************************)
EXTENDS Integers, Sequences, FiniteSets, TLC

VARIABLES pc, op, args, calls, raw, resp, err, again, config, server, failedBefore

vars == <<pc, op, args, calls, raw, resp, err, again, config, server, failedBefore>>

-----------------------------------------------------------------------------
(* Bounds of the model *)

\* longest data list (and repeatedinfoList) the upstream sends
MaxLen == 2

-----------------------------------------------------------------------------
(* Python values *)

IntV(i) == [t |-> "int", n |-> i, s |-> <<>>]
FloatV(tenths) == [t |-> "float", n |-> tenths, s |-> <<>>]
StrV(chars) == [t |-> "str", n |-> 0, s |-> chars]
NoneV == [t |-> "none", n |-> 0, s |-> <<>>]
ListV(len) == [t |-> "list", n |-> len, s |-> <<>>]

EmptyStr == StrV(<<>>)
EmptyDict == [k \in {} |-> NoneV]

\* isinstance(v, str) / isinstance(v, list)
IsStr(v) == v.t = "str"
IsList(v) == v.t = "list"

\* Python's == on the values above: numbers compare by value across int and
\* float, everything else by type and content.
PyEq(a, b) ==
    IF a.t \in {"int", "float"} /\ b.t \in {"int", "float"}
    THEN (IF a.t = "int" THEN a.n * 10 ELSE a.n)
         = (IF b.t = "int" THEN b.n * 10 ELSE b.n)
    ELSE a = b

-----------------------------------------------------------------------------
(* int(str) and float(str), on strings over digits, "." and letters *)

Digits == {"0", "1", "2", "3", "4", "5", "6", "7", "8", "9"}

DigitVal(c) ==
    CASE c = "0" -> 0 [] c = "1" -> 1 [] c = "2" -> 2 [] c = "3" -> 3
      [] c = "4" -> 4 [] c = "5" -> 5 [] c = "6" -> 6 [] c = "7" -> 7
      [] c = "8" -> 8 [] c = "9" -> 9

RECURSIVE DigitsValue(_)
DigitsValue(chars) ==
    IF chars = <<>> THEN 0
    ELSE DigitsValue(SubSeq(chars, 1, Len(chars) - 1)) * 10
         + DigitVal(chars[Len(chars)])

AllDigits(chars) == \A i \in 1..Len(chars) : chars[i] \in Digits

\* int(s) succeeds: one or more decimal digits
IntParses(chars) == Len(chars) > 0 /\ AllDigits(chars)

DotAt(chars) == {i \in 1..Len(chars) : chars[i] = "."}

\* float(s) succeeds: digits with at most one ".", and at least one digit
FloatParses(chars) ==
    \/ IntParses(chars)
    \/ /\ Cardinality(DotAt(chars)) = 1
       /\ Len(chars) > 1
       /\ \A i \in 1..Len(chars) : chars[i] \in Digits \cup {"."}

\* the value of float(s) in tenths (strings carry at most one decimal digit)
FloatValue(chars) ==
    IF DotAt(chars) = {} THEN DigitsValue(chars) * 10
    ELSE LET d == CHOOSE i \in DotAt(chars) : TRUE
             whole == SubSeq(chars, 1, d - 1)
             frac == SubSeq(chars, d + 1, Len(chars))
         IN DigitsValue(whole) * 10
            + (IF frac = <<>> THEN 0 ELSE DigitVal(frac[1]))

\* IntOrZero with the fallback written as the string "0"
IntOrZero_strFallback(v) ==
    IF IntParses(v.s) THEN IntV(DigitsValue(v.s)) ELSE StrV(<<"0">>)

\* try: int(v) / float(v) except (ValueError, TypeError): 0   -- for a str v
IntOrZero(v) == IF IntParses(v.s) THEN IntV(DigitsValue(v.s)) ELSE IntV(0)
FloatOrZero(v) == IF FloatParses(v.s) THEN FloatV(FloatValue(v.s)) ELSE IntV(0)

-----------------------------------------------------------------------------
(* Field tables of the normalizers *)

VALID_MARKETS == {"HOSE", "HNX", "UPCOM", "DER"}

Tools ==
    {"get_securities_list", "get_securities_details", "get_index_components",
     "get_index_list", "get_daily_ohlc", "get_intraday_ohlc",
     "get_daily_index", "get_stock_price"}

\* for field in ["Open", "High", "Low", "Close", "Volume", "Value"]
OhlcNumericFields == {"Open", "High", "Low", "Close", "Volume", "Value"}

\* if field == "Volume": int(...) else: float(...)
OhlcIntFields == {"Volume"}

\* numeric_fields of _process_daily_index_response
IndexNumericFields ==
    {"IndexValue", "Change", "RatioChange", "TotalTrade", "Totalmatchvol",
     "Totalmatchval", "Advances", "Nochanges", "Declines", "Ceiling", "Floor",
     "Totaldealvol", "Totaldealval", "Totalvol", "Totalval"}

\* if field in ["TotalTrade", ...]: int(...) else: float(...)
IndexIntFields ==
    {"TotalTrade", "Totalmatchvol", "Advances", "Nochanges", "Declines",
     "Ceiling", "Floor", "Totaldealvol", "Totalvol"}

\* required_fields of _process_stock_price_response
StockPriceFields ==
    {"Symbol", "Tradingdate", "Time", "Pricechange", "Perpricechange",
     "Ceilingprice", "Floorprice", "Refprice", "Openprice", "Highestprice",
     "Lowestprice", "Closeprice", "Averageprice", "Closepriceadjusted",
     "Totalmatchvol", "Totalmatchval", "Totaldealval", "Totaldealvol",
     "Foreignbuyvoltotal", "Foreigncurrentroom", "Foreignsellvoltotal",
     "Foreignbuyvaltotal", "Foreignsellvaltotal", "Totalbuytrade",
     "Totalbuytradevol", "Totalselltrade", "Totalselltradevol",
     "Netforeivol", "Netforeignval", "Totaltradedvol", "Totaltradedvalue"}

\* for field in ["IndexCode", "IndexName", "Exchange"]
IndexListFields == {"IndexCode", "IndexName", "Exchange"}

-----------------------------------------------------------------------------
(* Per-record repair: each takes the dict d of one record and returns the  *)
(* dict the loop body leaves behind.                                       *)

\* if key not in d: d[key] = default
SetDefault(d, key, default) ==
    IF key \in DOMAIN d THEN d ELSE d @@ (key :> default)

\* CoerceNumeric with the field == "Volume" branch lost: every string to float
CoerceNumeric_alwaysFloat(v, asInt) ==
    IF IsStr(v) THEN FloatOrZero(v) ELSE v

\* if isinstance(v, str): int(v) or float(v), 0 when that raises; else v
CoerceNumeric(v, asInt) ==
    IF IsStr(v) THEN (IF asInt THEN IntOrZero(v) ELSE FloatOrZero(v)) ELSE v

\* the loop "for field in <numeric fields>" of the OHLC and daily index normalizers
RepairNumeric(d, fields, intFields) ==
    [k \in DOMAIN d \cup fields |->
        IF k \notin DOMAIN d THEN IntV(0)
        ELSE IF k \in fields THEN CoerceNumeric(d[k], k \in intFields)
        ELSE d[k]]

\* loop body of _process_ohlc_response
RepairOhlc(d) ==
    RepairNumeric(SetDefault(d, "Symbol", EmptyStr), OhlcNumericFields, OhlcIntFields)

\* loop body of _process_intraday_ohlc_response
RepairIntradayOhlc(d) ==
    SetDefault(
        SetDefault(
            RepairNumeric(SetDefault(d, "Symbol", EmptyStr),
                          OhlcNumericFields, OhlcIntFields),
            "Time", IntV(0)),
        "TradingDate", EmptyStr)

\* loop body of _process_daily_index_response
RepairDailyIndex(d) ==
    SetDefault(
        SetDefault(
            RepairNumeric(
                SetDefault(SetDefault(d, "Indexcode", EmptyStr), "IndexName", EmptyStr),
                IndexNumericFields, IndexIntFields),
            "TradingDate", EmptyStr),
        "Time", IntV(0))

\* loop body of _process_stock_price_response
\* RepairStockPrice without the `elif price_data[field] is None` branch
RepairStockPrice_noNone(d) ==
    [k \in DOMAIN d \cup StockPriceFields |->
        IF k \notin DOMAIN d THEN EmptyStr
        ELSE d[k]]

RepairStockPrice(d) ==
    [k \in DOMAIN d \cup StockPriceFields |->
        IF k \notin DOMAIN d THEN EmptyStr
        ELSE IF k \in StockPriceFields /\ d[k] = NoneV THEN EmptyStr
        ELSE d[k]]

\* loop body of _process_index_list_response (the Exchange check only logs)
\* RepairIndexList replacing an Exchange outside HOSE and HNX by ""
RepairIndexList_defaultExchange(d) ==
    [k \in DOMAIN d \cup IndexListFields |->
        IF k \notin DOMAIN d THEN EmptyStr
        ELSE IF k = "Exchange" /\ d[k] \notin {StrV(<<"H", "O", "S", "E">>), StrV(<<"H", "N", "X">>)}
        THEN EmptyStr
        ELSE d[k]]

RepairIndexList(d) ==
    [k \in DOMAIN d \cup IndexListFields |->
        IF k \in DOMAIN d THEN d[k] ELSE EmptyStr]

\* first statement of the loop body of _process_index_components_response
RepairIndexComponent(d) ==
    IF "IndexComponent" \notin DOMAIN d \/ ~IsList(d["IndexComponent"])
    THEN [k \in DOMAIN d \cup {"IndexComponent"} |->
            IF k = "IndexComponent" THEN ListV(0) ELSE d[k]]
    ELSE d

\* RepairTotalSymbolNo with the overwrite lost: the mismatch is only logged
RepairTotalSymbolNo_logOnly(d) == d

\* second statement: TotalSymbolNo is overwritten when it != len(IndexComponent)
RepairTotalSymbolNo(d) ==
    IF "TotalSymbolNo" \in DOMAIN d
       /\ ~PyEq(d["TotalSymbolNo"], IntV(d["IndexComponent"].n))
    THEN [d EXCEPT !["TotalSymbolNo"] = IntV(d["IndexComponent"].n)]
    ELSE d

\* loop body of _process_index_components_response
RepairIndexComponents(d) == RepairTotalSymbolNo(RepairIndexComponent(d))

\* the loop body of tool's normalizer; the securities normalizers have no loop
RepairRecord(tool, d) ==
    CASE tool = "get_index_components" -> RepairIndexComponents(d)
      [] tool = "get_index_list" -> RepairIndexList(d)
      [] tool = "get_daily_ohlc" -> RepairOhlc(d)
      [] tool = "get_intraday_ohlc" -> RepairIntradayOhlc(d)
      [] tool = "get_daily_index" -> RepairDailyIndex(d)
      [] tool = "get_stock_price" -> RepairStockPrice(d)
      [] OTHER -> d

-----------------------------------------------------------------------------
(* Responses.  A response is [kind, top, data]:                            *)
(*   kind  "dict" for a mapping, otherwise the Python type received,       *)
(*   top   the top-level keys other than "data", as a dict,                *)
(*   data  [t, items, other, rilT, rilItems]: t is "absent" when the key   *)
(*         is missing, "list" (items holds the elements), "dict" (other    *)
(*         holds the keys besides repeatedinfoList; rilT and rilItems hold *)
(*         repeatedinfoList the same way) or the type of a scalar.         *)
(* An element of a list is [kind, f]: f is the dict when kind = "dict".    *)

DictElem(d) == [kind |-> "dict", f |-> d]
ScalarElem(type) == [kind |-> type, f |-> EmptyDict]

MkData(type, elems, others, rtype, relems) ==
    [t |-> type, items |-> elems, other |-> others, rilT |-> rtype, rilItems |-> relems]

AbsentData == MkData("absent", <<>>, EmptyDict, "absent", <<>>)
ScalarData(type) == MkData(type, <<>>, EmptyDict, "absent", <<>>)
ListData(elems) == MkData("list", elems, EmptyDict, "absent", <<>>)

\* {"repeatedinfoList": <elems>}
RilData(elems) == MkData("dict", <<>>, EmptyDict, "list", elems)

NoErr == [exc |-> "", msg |-> ""]
ValueError(text) == [exc |-> "ValueError", msg |-> text]
TypeError == [exc |-> "TypeError", msg |-> ""]
AttributeError == [exc |-> "AttributeError", msg |-> ""]
InvalidResponseFormat == ValueError("Invalid response format")

\* what a normalizer leaves: the response object as mutated, and the exception
Returns(r) == [resp |-> r, err |-> NoErr]
Raises(r, e) == [resp |-> r, err |-> e]

-----------------------------------------------------------------------------
(* The normalizers *)

\* if not isinstance(response, dict)
IsMapping(r) == r.kind = "dict"

\* RepairDataList with the condition dropped: data is always reset
RepairDataList_always(r) == [r EXCEPT !.data = ListData(<<>>)]

\* RepairDataList returning a fresh {"data": ...} instead of the response
RepairDataList_freshDict(r) ==
    [r EXCEPT !.top = EmptyDict,
              !.data = IF r.data.t = "list" THEN r.data ELSE ListData(<<>>)]

\* if "data" not in response or not isinstance(response["data"], list):
\*     response["data"] = []
RepairDataList(r) ==
    IF r.data.t = "list" THEN r ELSE [r EXCEPT !.data = ListData(<<>>)]

\* index of the first element the loop body cannot treat as a dict: the
\* membership test or the item assignment raises TypeError on it
FirstNonDict(elems) ==
    IF \E i \in 1..Len(elems) : elems[i].kind # "dict"
    THEN CHOOSE i \in 1..Len(elems) :
            /\ elems[i].kind # "dict"
            /\ \A j \in 1..(i - 1) : elems[j].kind = "dict"
    ELSE Len(elems) + 1

\* for record in response["data"]: <loop body>; the elements before the one
\* that raises have been repaired in place, the others are untouched
LoopRecords(tool, elems) ==
    [i \in 1..Len(elems) |->
        IF i < FirstNonDict(elems)
        THEN DictElem(RepairRecord(tool, elems[i].f))
        ELSE elems[i]]

\* container repair, then the loop over the records
RepairRecords(tool, r) ==
    LET c == RepairDataList(r)
        done == [c EXCEPT !.data.items = LoopRecords(tool, c.data.items)]
    IN IF FirstNonDict(c.data.items) <= Len(c.data.items)
       THEN Raises(done, TypeError)
       ELSE Returns(done)

_process_securities_response(r) ==
    IF ~IsMapping(r) THEN Raises(r, InvalidResponseFormat)
    ELSE Returns(RepairDataList(r))

\* RepairDetailsData without the salvage of a list received as data
RepairDetailsData_noSalvage(r) ==
    IF r.data.t # "dict" THEN [r EXCEPT !.data = RilData(<<>>)] ELSE r

\* lines 193-200: data absent, or present and not a dict
RepairDetailsData(r) ==
    IF r.data.t = "absent" THEN [r EXCEPT !.data = RilData(<<>>)]
    ELSE IF r.data.t # "dict"
    THEN IF r.data.t = "list" /\ Len(r.data.items) > 0
         THEN [r EXCEPT !.data = RilData(r.data.items)]
         ELSE [r EXCEPT !.data = RilData(<<>>)]
    ELSE r

\* lines 201-202
RepairRepeatedInfoList(r) ==
    IF r.data.rilT # "list"
    THEN [r EXCEPT !.data.rilT = "list", !.data.rilItems = <<>>]
    ELSE r

_process_securities_details_response(r) ==
    IF ~IsMapping(r) THEN Raises(r, InvalidResponseFormat)
    ELSE Returns(RepairRepeatedInfoList(RepairDetailsData(r)))

\* no type gate: response.get("status") raises AttributeError on a non-dict
_process_index_components_response(r) ==
    IF ~IsMapping(r) THEN Raises(r, AttributeError)
    ELSE RepairRecords("get_index_components", r)

\* _process_index_list_response with the isinstance gate of the gated four
_process_index_list_response_gated(r) ==
    IF ~IsMapping(r) THEN Raises(r, InvalidResponseFormat)
    ELSE RepairRecords("get_index_list", r)

_process_index_list_response(r) ==
    IF ~IsMapping(r) THEN Raises(r, AttributeError)
    ELSE RepairRecords("get_index_list", r)

_process_ohlc_response(r) ==
    IF ~IsMapping(r) THEN Raises(r, InvalidResponseFormat)
    ELSE RepairRecords("get_daily_ohlc", r)

_process_intraday_ohlc_response(r) ==
    IF ~IsMapping(r) THEN Raises(r, AttributeError)
    ELSE RepairRecords("get_intraday_ohlc", r)

\* _process_daily_index_response without its isinstance gate
_process_daily_index_response_noGate(r) ==
    IF ~IsMapping(r) THEN Raises(r, AttributeError)
    ELSE RepairRecords("get_daily_index", r)

_process_daily_index_response(r) ==
    IF ~IsMapping(r) THEN Raises(r, InvalidResponseFormat)
    ELSE RepairRecords("get_daily_index", r)

_process_stock_price_response(r) ==
    IF ~IsMapping(r) THEN Raises(r, AttributeError)
    ELSE RepairRecords("get_stock_price", r)

\* the normalizer each tool returns through
Normalizer(tool, r) ==
    CASE tool = "get_securities_list" -> _process_securities_response(r)
      [] tool = "get_securities_details" -> _process_securities_details_response(r)
      [] tool = "get_index_components" -> _process_index_components_response(r)
      [] tool = "get_index_list" -> _process_index_list_response(r)
      [] tool = "get_daily_ohlc" -> _process_ohlc_response(r)
      [] tool = "get_intraday_ohlc" -> _process_intraday_ohlc_response(r)
      [] tool = "get_daily_index" -> _process_daily_index_response(r)
      [] tool = "get_stock_price" -> _process_stock_price_response(r)

-----------------------------------------------------------------------------
(* Request validation *)

\* the parameters each tool checks or passes on as market/exchange
Params(tool) ==
    CASE tool = "get_securities_list" -> {"market"}
      [] tool = "get_securities_details" -> {"market", "symbol"}
      [] tool = "get_index_components" -> {"index"}
      [] tool = "get_index_list" -> {"exchange"}
      [] tool = "get_daily_ohlc" -> {"symbol", "from_date", "to_date"}
      [] tool = "get_intraday_ohlc" -> {"symbol", "from_date", "to_date"}
      [] tool = "get_daily_index" -> {"from_date", "to_date"}
      [] tool = "get_stock_price" -> {"symbol", "from_date", "to_date", "exchange"}

\* _validate_date_params with any() for all(): raises only when all are empty
_validate_date_params_any(a) ==
    IF a["symbol"] = "" /\ a["from_date"] = "" /\ a["to_date"] = ""
    THEN ValueError("symbol, from_date, and to_date are required")
    ELSE NoErr

\* if not all([symbol, from_date, to_date]): raise ValueError(...)
_validate_date_params(a) ==
    IF a["symbol"] = "" \/ a["from_date"] = "" \/ a["to_date"] = ""
    THEN ValueError("symbol, from_date, and to_date are required")
    ELSE NoErr

\* if market not in VALID_MARKETS: raise ValueError(...)
CheckMarket(a) ==
    IF a["market"] \notin VALID_MARKETS
    THEN ValueError("Market must be one of: HOSE, HNX, UPCOM, DER")
    ELSE NoErr

\* the statements of each tool that precede the upstream call
Validate(tool, a) ==
    CASE tool = "get_securities_list" -> CheckMarket(a)
      [] tool = "get_securities_details" ->
            IF a["symbol"] = "" THEN ValueError("Symbol is required")
            ELSE CheckMarket(a)
      [] tool = "get_index_components" ->
            IF a["index"] = "" THEN ValueError("Index code is required") ELSE NoErr
      [] tool = "get_index_list" ->
            IF a["exchange"] = "" THEN ValueError("Exchange code is required") ELSE NoErr
      [] tool = "get_daily_ohlc" -> _validate_date_params(a)
      [] tool = "get_intraday_ohlc" -> _validate_date_params(a)
      [] tool = "get_daily_index" ->
            IF a["from_date"] = "" \/ a["to_date"] = ""
            THEN ValueError("from_date and to_date are required")
            ELSE NoErr
      [] tool = "get_stock_price" -> _validate_date_params(a)

-----------------------------------------------------------------------------
(* What the callers and the upstream service may send *)

Str105 == <<"1", "0", ".", "5">>
Str100 == <<"1", "0", "0">>
StrAbc == <<"a", "b", "c">>

\* values a field of an upstream record may hold
SampleValues == {IntV(7), StrV(Str105), StrV(Str100), StrV(StrAbc), NoneV}

\* the record fields each tool's docstring documents
DocSchema(tool) ==
    CASE tool = "get_securities_list" ->
            {"market", "symbol", "StockName", "StockEnName"}
      [] tool = "get_securities_details" ->
            {"Isin", "Symbol", "SymbolName", "SymbolEngName", "SecType", "Exchange",
             "Issuer", "LotSize", "IssueDate", "MaturityDate", "FirstTradingDate",
             "LastTradingDate", "ContractMultiplier", "SettlMethod", "Underlying",
             "PutOrCall", "ExercisePrice", "ExerciseStyle", "ExcerciseRatio",
             "ListedShare", "TickPrice1", "TickIncrement1", "TickPrice2",
             "TickIncrement2", "TickPrice3", "TickIncrement3", "TickPrice4",
             "TickIncrement4"}
      [] tool = "get_index_components" ->
            {"IndexCode", "IndexName", "Exchange", "TotalSymbolNo", "IndexComponent"}
      [] tool = "get_index_list" -> {"IndexCode", "IndexName", "Exchange"}
      [] tool \in {"get_daily_ohlc", "get_intraday_ohlc"} ->
            {"Symbol", "TradingDate", "Time", "Open", "High", "Low", "Close",
             "Volume", "Value"}
      [] tool = "get_daily_index" ->
            {"Indexcode", "IndexValue", "TradingDate", "Time", "Change",
             "RatioChange", "TotalTrade", "Totalmatchvol", "Totalmatchval",
             "TypeIndex", "IndexName", "Advances", "Nochanges", "Declines",
             "Ceiling", "Floor", "Totaldealvol", "Totaldealval", "Totalvol",
             "Totalval", "TradingSession", "Exchange"}
      [] tool = "get_stock_price" -> StockPriceFields

\* the documented fields whose docstring type is int or float
DocNumeric(tool) ==
    CASE tool = "get_securities_details" ->
            {"SettlMethod", "ExerciseStyle", "TickPrice1", "TickIncrement1",
             "TickPrice2", "TickIncrement2", "TickPrice3", "TickIncrement3",
             "TickPrice4", "TickIncrement4"}
      [] tool = "get_index_components" -> {"TotalSymbolNo"}
      [] tool \in {"get_daily_ohlc", "get_intraday_ohlc"} ->
            OhlcNumericFields \cup {"Time"}
      [] tool = "get_daily_index" -> IndexNumericFields \cup {"Time"}
      [] OTHER -> {}

\* a partial record per tool: some documented fields present, the rest absent
PartialFields(tool) ==
    CASE tool = "get_securities_list" -> {"symbol"}
      [] tool = "get_securities_details" -> {"Symbol"}
      [] tool = "get_index_components" -> {"IndexCode"}
      [] tool = "get_index_list" -> {"IndexCode", "Exchange"}
      [] tool \in {"get_daily_ohlc", "get_intraday_ohlc"} -> {"Symbol", "Open", "Volume"}
      [] tool = "get_daily_index" -> {"Indexcode", "IndexValue", "TotalTrade"}
      [] tool = "get_stock_price" -> {"Symbol", "Closeprice"}

Uniform(keys, v) == [k \in keys |-> v]

\* index component records: IndexComponent and TotalSymbolNo vary independently
IndexComponentRecords ==
    LET comps == {NoneV, ListV(0), ListV(2), IntV(7)}
        counts == {NoneV, IntV(2), IntV(5), FloatV(20)}
    IN {[k \in {"IndexCode"}
              \cup (IF c = NoneV THEN {} ELSE {"IndexComponent"})
              \cup (IF n = NoneV THEN {} ELSE {"TotalSymbolNo"}) |->
            IF k = "IndexComponent" THEN c
            ELSE IF k = "TotalSymbolNo" THEN n
            ELSE StrV(StrAbc)] : c \in comps, n \in counts}

\* the dicts a data list may hold, per tool
SampleRecords(tool) ==
    CASE tool \in {"get_securities_list", "get_securities_details"} ->
            {EmptyDict, Uniform(PartialFields(tool), StrV(StrAbc))}
      [] tool = "get_index_components" -> IndexComponentRecords
      [] OTHER ->
            {EmptyDict}
            \cup {Uniform(DocSchema(tool), v) : v \in SampleValues}
            \cup {Uniform(PartialFields(tool), v) : v \in SampleValues}

\* the elements a data list may hold: the dicts, and values that are no dict
Elements(tool) ==
    {DictElem(d) : d \in SampleRecords(tool)} \cup {ScalarElem("int"), ScalarElem("str")}

SeqsUpTo(S, n) == UNION {[1..k -> S] : k \in 0..n}

\* the values of response["data"]
DataValues(tool) ==
    LET lists == SeqsUpTo(Elements(tool), MaxLen)
    IN {AbsentData, ScalarData("none"), MkData("dict", <<>>, EmptyDict, "absent", <<>>)}
       \cup {ListData(l) : l \in lists}
       \cup (IF tool = "get_securities_details"
             THEN {MkData("dict", <<>>, o, "list", l) :
                      o \in {EmptyDict, Uniform({"RType"}, StrV(<<"y">>))}, l \in lists}
                  \cup {MkData("dict", <<>>, Uniform({"RType"}, StrV(<<"y">>)), rt, <<>>) :
                      rt \in {"absent", "none"}}
             ELSE {})

\* the top-level keys besides data
TopMaps ==
    {EmptyDict,
     [k \in {"status"} |-> IntV(404)],
     [k \in {"message", "status", "totalRecord"} |->
        IF k = "message" THEN StrV(<<"o", "k">>)
        ELSE IF k = "status" THEN IntV(200) ELSE IntV(1)]}

MkResponse(type, topKeys, d) == [kind |-> type, top |-> topKeys, data |-> d]

NoResponse == MkResponse("unset", EmptyDict, AbsentData)

\* what client.<call>(config, req) may return
Responses(tool) ==
    {MkResponse("dict", m, d) : m \in TopMaps, d \in DataValues(tool)}
    \cup {MkResponse("list", EmptyDict, AbsentData), MkResponse("none", EmptyDict, AbsentData)}

\* the values a caller may pass for a parameter
ParamValues(p) ==
    CASE p = "market" -> {"", "HOSE", "DER", "XYZ"}
      [] p = "exchange" -> {"", "hose", "xyz"}
      [] p = "symbol" -> {"", "SSI"}
      [] p = "index" -> {"", "vn100"}
      [] OTHER -> {"", "01/01/2024"}

\* the argument dicts a caller may invoke tool with
ArgSets(tool) ==
    {a \in [Params(tool) -> UNION {ParamValues(p) : p \in Params(tool)}] :
        \A p \in Params(tool) : a[p] \in ParamValues(p)}

-----------------------------------------------------------------------------
(* One tool invocation at a time: validate, call upstream, normalize *)

\* config = SSIAuthConfig(consumerID = os.environ.get(..., ""), consumerSecret =
\* os.environ.get(..., "")): each credential is "" when its variable is unset
Credentials == {"", "set"}
Configs == [consumerID : Credentials, consumerSecret : Credentials]

\* setup_environment without the check of the secret
setup_environment_noSecretCheck(c) ==
    IF c.consumerID = "" THEN FALSE ELSE TRUE

\* the value setup_environment returns
setup_environment(c) ==
    IF c.consumerID = "" THEN FALSE
    ELSE IF c.consumerSecret = "" THEN FALSE
    ELSE TRUE

\* the process: module imported, mcp.run serving, or ended with an exit status
Imported == [state |-> "imported", exit |-> 0, exc |-> ""]
Running == [state |-> "running", exit |-> 0, exc |-> ""]
Exited(status, e) == [state |-> "exited", exit |-> status, exc |-> e]

\* sys.exit(1) where the module never imports sys: the name lookup raises
\* NameError, nothing catches it, and the interpreter ends with status 1
SysExit1 == Exited(1, "NameError")

NoArgs == [p \in {} |-> ""]
NoResult == Returns(NoResponse)

Init ==
    /\ pc = "idle"
    /\ op = "none"
    /\ args = NoArgs
    /\ calls = 0
    /\ raw = NoResponse
    /\ resp = NoResponse
    /\ err = NoErr
    /\ again = NoResult
    /\ config \in Configs
    /\ server = Imported
    /\ failedBefore = FALSE

\* if not setup_environment(): sys.exit(1)
\* mcp.run(transport="stdio")
run_server ==
    /\ server = Imported
    /\ server' = IF setup_environment(config) THEN Running ELSE SysExit1
    /\ UNCHANGED <<pc, op, args, calls, raw, resp, err, again, config, failedBefore>>

\* mcp.run returns when the transport closes; run_server returns after it
ServerStops ==
    /\ server = Running
    /\ pc = "idle"
    /\ server' = Exited(0, "")
    /\ UNCHANGED <<pc, op, args, calls, raw, resp, err, again, config, failedBefore>>

\* the tool is entered and runs up to the upstream call, or raises before it
Invoke(tool, a) ==
    /\ server = Running
    /\ pc = "idle"
    /\ op' = tool
    /\ args' = a
    /\ calls' = 0
    /\ err' = Validate(tool, a)
    /\ pc' = IF Validate(tool, a) = NoErr THEN "call" ELSE "raised"
    /\ UNCHANGED <<raw, resp, again, config, server, failedBefore>>

\* response = client.<call>(config, req) returns r
CallUpstream(r) ==
    /\ pc = "call"
    /\ calls' = calls + 1
    /\ raw' = r
    /\ pc' = "normalize"
    /\ UNCHANGED <<op, args, resp, err, again, config, server, failedBefore>>

\* UpstreamFails with the call tried again after the failure
UpstreamFails_retry ==
    /\ pc = "call"
    /\ calls' = calls + 1
    /\ err' = [exc |-> "UpstreamError", msg |-> ""]
    /\ pc' = IF calls = 0 THEN "call" ELSE "raised"
    /\ UNCHANGED <<op, args, raw, resp, again, config, server, failedBefore>>

\* client.<call>(config, req) raises: the exception leaves the tool as it is
UpstreamFails ==
    /\ pc = "call"
    /\ calls' = calls + 1
    /\ err' = [exc |-> "UpstreamError", msg |-> ""]
    /\ pc' = "raised"
    /\ UNCHANGED <<op, args, raw, resp, again, config, server, failedBefore>>

\* return _process_..._response(response)
Normalize ==
    /\ pc = "normalize"
    /\ LET out == Normalizer(op, raw)
       IN /\ resp' = out.resp
          /\ err' = out.err
          /\ pc' = IF out.err = NoErr THEN "returned" ELSE "raised"
    /\ UNCHANGED <<op, args, calls, raw, again, config, server, failedBefore>>

\* the normalizer applied to the response it returned
ReNormalize ==
    /\ pc = "returned"
    /\ again' = Normalizer(op, resp)
    /\ pc' = "renormalized"
    /\ UNCHANGED <<op, args, calls, raw, resp, err, config, server, failedBefore>>

\* Finish with the exception of the invocation left behind
Finish_keepsErr ==
    /\ pc \in {"returned", "renormalized", "raised"}
    /\ pc' = "idle"
    /\ op' = "none"
    /\ args' = NoArgs
    /\ calls' = 0
    /\ raw' = NoResponse
    /\ resp' = NoResponse
    /\ err' = err
    /\ again' = NoResult
    /\ failedBefore' = (failedBefore \/ pc = "raised")
    /\ UNCHANGED <<config, server>>

\* the invocation is over; nothing of it is kept.  failedBefore records, for
\* the properties only, that an invocation of this process has raised
Finish ==
    /\ pc \in {"returned", "renormalized", "raised"}
    /\ pc' = "idle"
    /\ op' = "none"
    /\ args' = NoArgs
    /\ calls' = 0
    /\ raw' = NoResponse
    /\ resp' = NoResponse
    /\ err' = NoErr
    /\ again' = NoResult
    /\ failedBefore' = (failedBefore \/ pc = "raised")
    /\ UNCHANGED <<config, server>>

Next ==
    \/ run_server
    \/ ServerStops
    \/ \E tool \in Tools : \E a \in ArgSets(tool) : Invoke(tool, a)
    \/ pc = "call" /\ \E r \in Responses(op) : CallUpstream(r)
    \/ UpstreamFails
    \/ Normalize
    \/ ReNormalize
    \/ Finish

Spec == Init /\ [][Next]_vars

-----------------------------------------------------------------------------
(* Vocabulary of the properties *)

\* the parameters the request validator requires, per tool
RequiredParams(tool) ==
    IF tool = "get_stock_price" THEN Params(tool) \ {"exchange"} ELSE Params(tool)

\* the market/exchange parameters and the values documented for them
EnumParams(tool) == Params(tool) \cap {"market", "exchange"}
PermittedValues(p) == IF p = "market" THEN VALID_MARKETS ELSE {"hnx", "hose"}

\* the tool's normalizer has run on the upstream response of this invocation
NormalizerRan ==
    \/ pc \in {"returned", "renormalized"}
    \/ pc = "raised" /\ raw # NoResponse

ListTools == Tools \ {"get_securities_details"}
GatedTools ==
    {"get_securities_list", "get_securities_details", "get_daily_ohlc", "get_daily_index"}

\* the records of a response, and the records upstream sent for them
RecordsOf(tool, r) ==
    IF tool = "get_securities_details" THEN r.data.rilItems ELSE r.data.items
SentRecords(tool, r) ==
    IF r.data.t = "list" THEN r.data.items
    ELSE IF tool = "get_securities_details" THEN r.data.rilItems
    ELSE <<>>

\* "" for string fields, 0 for numeric fields (and [] for the component list)
TypedDefault(tool, k) ==
    IF k \in DocNumeric(tool) THEN IntV(0)
    ELSE IF k = "IndexComponent" THEN ListV(0)
    ELSE EmptyStr

-----------------------------------------------------------------------------
(* Properties *)

\* C1: in every tool, an invocation with an empty required parameter raises
\* ValueError, and the upstream client has been called zero times.
C1_MissingRequiredRejected ==
    (pc # "idle" /\ \E p \in RequiredParams(op) : args[p] = "")
        => (pc = "raised" /\ err.exc = "ValueError" /\ calls = 0)

C1_Witness ==
    /\ pc = "raised"
    /\ op = "get_stock_price"
    /\ args["symbol"] = "SSI" /\ args["from_date"] # "" /\ args["to_date"] = ""
    /\ err.exc = "ValueError"
    /\ calls = 0

\* C2: in every tool with a market or exchange parameter, a non-empty value
\* outside the permitted set raises ValueError and no upstream call is made.
C2_OutOfEnumRejected ==
    (pc # "idle" /\ \E p \in EnumParams(op) :
                        args[p] # "" /\ args[p] \notin PermittedValues(p))
        => (pc = "raised" /\ err.exc = "ValueError" /\ calls = 0)

\* C3: normalization of a response that is a mapping never raises.
C3_NormalizationNeverRaises ==
    ~(pc = "raised" /\ IsMapping(raw))

\* C4: after normalization every record that is a mapping carries every field
\* of the tool's documented schema, an absent one with its typed default.
C4_DocumentedFieldsPresent ==
    pc = "returned" =>
        LET sent == SentRecords(op, raw)
            out == RecordsOf(op, resp)
        IN \A i \in 1..Len(out) :
              out[i].kind = "dict" =>
                 \A k \in DocSchema(op) :
                    /\ k \in DOMAIN out[i].f
                    /\ (k \notin DOMAIN sent[i].f => out[i].f[k] = TypedDefault(op, k))

\* C5: for the seven list-shaped tools and a mapping response, data is a list
\* afterwards: empty when data was absent or no list, otherwise the list
\* received, with as many records, each in its place.
C5_DataIsList ==
    (op \in ListTools /\ NormalizerRan /\ IsMapping(raw)) =>
        /\ resp.data.t = "list"
        /\ IF raw.data.t = "list"
           THEN /\ Len(resp.data.items) = Len(raw.data.items)
                /\ \A i \in 1..Len(raw.data.items) :
                      /\ resp.data.items[i].kind = raw.data.items[i].kind
                      /\ DOMAIN raw.data.items[i].f \subseteq DOMAIN resp.data.items[i].f
           ELSE resp.data.items = <<>>

C5_Witness ==
    /\ pc = "returned"
    /\ op = "get_daily_ohlc"
    /\ raw.data.t = "list"
    /\ Len(raw.data.items) = 2
    /\ raw.data.items[1].f = EmptyDict
    /\ raw.data.items[2].f # EmptyDict
    /\ Len(resp.data.items) = 2

\* C6: normalizing the result of a successful normalization returns that
\* result: nothing is added, removed or changed, and nothing is raised.
C6_Idempotent ==
    pc = "renormalized" => (again.err = NoErr /\ again.resp = resp)

C6_Witness ==
    /\ pc = "renormalized"
    /\ op = "get_daily_index"
    /\ raw.data.t = "list"
    /\ Len(raw.data.items) > 0
    /\ resp # raw
    /\ again.resp = resp

\* C7: for get_securities_details, data is afterwards a mapping whose
\* repeatedinfoList is a list: absent data gives {repeatedinfoList: []}, a
\* non-empty list is kept as repeatedinfoList, other non-mappings give
\* {repeatedinfoList: []}, and a mapping keeps its other keys and its
\* repeatedinfoList unless that is absent or no list.
C7_DetailsContainer ==
    (op = "get_securities_details" /\ pc = "returned") =>
        /\ resp.data.t = "dict"
        /\ resp.data.rilT = "list"
        /\ resp.data.items = <<>>
        /\ IF raw.data.t = "dict"
           THEN /\ resp.data.other = raw.data.other
                /\ resp.data.rilItems =
                      (IF raw.data.rilT = "list" THEN raw.data.rilItems ELSE <<>>)
           ELSE IF raw.data.t = "list" /\ Len(raw.data.items) > 0
           THEN resp.data = RilData(raw.data.items)
           ELSE resp.data = RilData(<<>>)

C7_Witness ==
    /\ pc = "returned"
    /\ op = "get_securities_details"
    /\ raw.data.t = "list"
    /\ Len(raw.data.items) = 2
    /\ resp.data.rilItems = raw.data.items

\* the count/volume-like fields C8 names
C8_IntFields ==
    {"Volume", "TotalTrade", "Totalmatchvol", "Advances", "Nochanges", "Declines",
     "Ceiling", "Floor", "Totaldealvol", "Totalvol"}

\* what Python's int() and float() give on the strings upstream sends
C8_Parsed(chars, asInt) ==
    CASE chars = Str100 -> IF asInt THEN IntV(100) ELSE FloatV(1000)
      [] chars = Str105 -> IF asInt THEN IntV(0) ELSE FloatV(105)
      [] OTHER -> IntV(0)

\* C8: in the daily OHLC, intraday OHLC and daily index normalizers every
\* numeric field is 0 when absent, the parsed number when a string that
\* parses (an integer for the count/volume-like fields, a float otherwise),
\* 0 when a string that does not parse, and unchanged otherwise.
C8_NumericRepair ==
    (pc = "returned" /\ raw.data.t = "list"
       /\ op \in {"get_daily_ohlc", "get_intraday_ohlc", "get_daily_index"}) =>
        \A i \in 1..Len(raw.data.items) :
            LET sent == raw.data.items[i].f
                out == resp.data.items[i].f
            IN \A k \in (IF op = "get_daily_index"
                         THEN IndexNumericFields ELSE OhlcNumericFields) :
                  /\ k \in DOMAIN out
                  /\ out[k] = IF k \notin DOMAIN sent THEN IntV(0)
                              ELSE IF sent[k].t = "str"
                              THEN C8_Parsed(sent[k].s, k \in C8_IntFields)
                              ELSE sent[k]

C8_Witness ==
    /\ pc = "returned"
    /\ op = "get_daily_ohlc"
    /\ raw.data.t = "list"
    /\ Len(raw.data.items) = 1
    /\ raw.data.items[1].f = Uniform({"Symbol", "Open", "Volume"}, StrV(Str100))
    /\ resp.data.items[1].f["Open"] = FloatV(1000)
    /\ resp.data.items[1].f["Volume"] = IntV(100)
    /\ resp.data.items[1].f["High"] = IntV(0)
    /\ resp.data.items[1].f["Value"] = IntV(0)

\* C9: after index-components normalization every record has IndexComponent
\* as a list, the list it came with when that was a list, and a TotalSymbolNo
\* it carries equals the length of that list: a count that disagrees is
\* overwritten with the length.
C9_CountMatchesComponents ==
    (pc = "returned" /\ op = "get_index_components" /\ raw.data.t = "list") =>
        \A i \in 1..Len(raw.data.items) :
            LET sent == raw.data.items[i].f
                out == resp.data.items[i].f
                had == "IndexComponent" \in DOMAIN sent /\ sent["IndexComponent"].t = "list"
            IN /\ "IndexComponent" \in DOMAIN out
               /\ out["IndexComponent"] = IF had THEN sent["IndexComponent"] ELSE ListV(0)
               /\ ("TotalSymbolNo" \in DOMAIN out) = ("TotalSymbolNo" \in DOMAIN sent)
               /\ "TotalSymbolNo" \in DOMAIN sent =>
                     /\ PyEq(out["TotalSymbolNo"], IntV(out["IndexComponent"].n))
                     /\ out["TotalSymbolNo"] \in
                           {sent["TotalSymbolNo"], IntV(out["IndexComponent"].n)}

C9_Witness ==
    /\ pc = "returned"
    /\ op = "get_index_components"
    /\ raw.data.t = "list"
    /\ Len(raw.data.items) = 1
    /\ raw.data.items[1].f =
          [k \in {"IndexCode", "IndexComponent", "TotalSymbolNo"} |->
              IF k = "IndexComponent" THEN ListV(2)
              ELSE IF k = "TotalSymbolNo" THEN IntV(5) ELSE StrV(StrAbc)]
    /\ resp.data.items[1].f["TotalSymbolNo"] = IntV(2)
    /\ resp.data.items[1].f["IndexComponent"] = ListV(2)

\* C10: for the four tools whose normalizer has the isinstance gate, a
\* response that is no mapping makes the invocation raise ValueError("Invalid
\* response format"), with the response left as it was received.
C10_NonMappingRejected ==
    (op \in GatedTools /\ NormalizerRan /\ ~IsMapping(raw)) =>
        /\ pc = "raised"
        /\ err = InvalidResponseFormat
        /\ resp = raw

C10_Witness ==
    /\ pc = "raised"
    /\ op = "get_daily_index"
    /\ raw.kind = "list"
    /\ err = InvalidResponseFormat
    /\ resp = raw

\* C11: normalization leaves every top-level key other than data as upstream
\* sent it, and a status other than 200 is never an error: a mapping response
\* makes the normalizer raise only through a record that is no mapping.
C11_TopLevelUnchanged ==
    (NormalizerRan /\ IsMapping(raw)) =>
        /\ resp.kind = "dict"
        /\ resp.top = raw.top
        /\ pc = "raised" =>
              \E i \in 1..Len(raw.data.items) : raw.data.items[i].kind # "dict"

C11_Witness ==
    /\ pc = "returned"
    /\ op = "get_index_list"
    /\ raw.top = [k \in {"status"} |-> IntV(404)]
    /\ raw.data = ListData(<<>>)
    /\ resp.top["status"] = IntV(404)
    /\ resp.data = ListData(<<>>)

\* C12: every invocation that returns, returns a mapping with message (a
\* string), status (an integer), totalRecord (an integer) and data.
C12_FourKeysReturned ==
    pc = "returned" =>
        /\ resp.kind = "dict"
        /\ {"message", "status", "totalRecord"} \subseteq DOMAIN resp.top
        /\ resp.top["message"].t = "str"
        /\ resp.top["status"].t = "int"
        /\ resp.top["totalRecord"].t = "int"
        /\ resp.data.t # "absent"

\* C13: when the client identifier or the client secret is unset at start-up,
\* run_server ends the process with a non-zero exit status and the tool server
\* is never started: no tool is ever entered.
C13_UnsetCredentialsExit ==
    (config.consumerID = "" \/ config.consumerSecret = "") =>
        /\ server # Running
        /\ server.state \in {"imported", "exited"}
        /\ server.state = "exited" => server.exit # 0
        /\ pc = "idle"

C13_Witness ==
    /\ config.consumerID = "set"
    /\ config.consumerSecret = ""
    /\ server.state = "exited"
    /\ server.exit = 1

\* the steps of one invocation follow one another in this order only
StepOrder ==
    {<<"idle", "call">>, <<"idle", "raised">>,
     <<"call", "normalize">>, <<"call", "raised">>,
     <<"normalize", "returned">>, <<"normalize", "raised">>,
     <<"returned", "renormalized">>,
     <<"returned", "idle">>, <<"renormalized", "idle">>, <<"raised", "idle">>}

\* how often the upstream client has been called at each point of an
\* invocation: step p of tool with parameters a, n calls made, upstream
\* response r, normalized response out, exception e
CallsAtStep(p, tool, a, n, r, out, e) ==
    /\ n \in {0, 1}
    /\ p = "call" => n = 0 /\ Validate(tool, a) = NoErr /\ r = NoResponse
    /\ p = "normalize" => n = 1 /\ r # NoResponse /\ out = NoResponse
    /\ p = "returned" =>
          n = 1 /\ Validate(tool, a) = NoErr /\ Normalizer(tool, r) = Returns(out)
    /\ p = "raised" =>
          \/ n = 0 /\ e = Validate(tool, a) /\ e # NoErr /\ r = NoResponse
          \/ /\ n = 1 /\ Validate(tool, a) = NoErr
             /\ \/ /\ e = [exc |-> "UpstreamError", msg |-> ""]
                   /\ r = NoResponse /\ out = NoResponse
                \/ r # NoResponse /\ Normalizer(tool, r) = Raises(out, e)

\* C14: within one invocation the steps run in the order validate, call
\* upstream, normalize, return; the upstream client is called exactly once when
\* validation passes and never otherwise, never again after a failure, and an
\* upstream failure reaches the caller as raised, the normalizer not having run.
C14_OrderAndSingleCall ==
    [][/\ pc' # pc => <<pc, pc'>> \in StepOrder
       /\ CallsAtStep(pc', op', args', calls', raw', resp', err')]_vars

C14_Witness ==
    /\ pc = "raised"
    /\ err.exc = "UpstreamError"
    /\ calls = 1
    /\ raw = NoResponse
    /\ resp = NoResponse

\* what an invocation ends with, from its own parameters and its own upstream
\* response alone (NoResponse standing for an upstream call that raised)
OutcomeOf(tool, a, r) ==
    IF Validate(tool, a) # NoErr THEN Raises(NoResponse, Validate(tool, a))
    ELSE IF r = NoResponse
    THEN Raises(NoResponse, [exc |-> "UpstreamError", msg |-> ""])
    ELSE Normalizer(tool, r)

\* between invocations nothing of an invocation is left
NothingKept ==
    /\ op = "none"
    /\ args = NoArgs
    /\ calls = 0
    /\ raw = NoResponse
    /\ resp = NoResponse
    /\ err = NoErr
    /\ again = NoResult

C16_OhlcNormalizersEquivalent ==
    (pc = "normalize" /\ op \in {"get_daily_ohlc", "get_intraday_ohlc"}) =>
        _process_ohlc_response(raw) = _process_intraday_ohlc_response(raw)

\* the tools whose normalizer answers the response r with the invalid-response-
\* format error
RejectingTools(r) == {t \in Tools : Normalizer(t, r).err = InvalidResponseFormat}

C18_StockPriceFieldsFilled ==
    (op = "get_stock_price" /\ pc \in {"returned", "renormalized"}) =>
        /\ Cardinality(StockPriceFields) = 31
        /\ Len(resp.data.items) = Len(SentRecords(op, raw))
        /\ \A i \in 1..Len(resp.data.items) :
              LET out == resp.data.items[i].f
                  sent == SentRecords(op, raw)[i].f
              IN \A k \in StockPriceFields :
                    /\ k \in DOMAIN out
                    /\ out[k] # NoneV
                    /\ out[k] = IF k \notin DOMAIN sent \/ sent[k] = NoneV
                                THEN EmptyStr
                                ELSE sent[k]

C18_Witness ==
    /\ op = "get_stock_price"
    /\ pc = "returned"
    /\ Len(resp.data.items) = 2
    /\ raw.data.items[1].f = Uniform({"Symbol", "Closeprice"}, NoneV)
    /\ raw.data.items[2].f = Uniform({"Symbol", "Closeprice"}, StrV(Str100))
    /\ resp.data.items[1].f["Closeprice"] = EmptyStr
    /\ resp.data.items[1].f["Time"] = EmptyStr
    /\ resp.data.items[2].f["Closeprice"] = StrV(Str100)

\* C19: in index-list normalization an Exchange that is present is left as
\* received even when it is neither HOSE nor HNX, and each of IndexCode,
\* IndexName and Exchange that is absent from a record is set to "".
C19_IndexListExchangeKept ==
    (op = "get_index_list" /\ pc \in {"returned", "renormalized"}) =>
        /\ Len(resp.data.items) = Len(SentRecords(op, raw))
        /\ \A i \in 1..Len(resp.data.items) :
              LET out == resp.data.items[i].f
                  sent == SentRecords(op, raw)[i].f
              IN \A k \in {"IndexCode", "IndexName", "Exchange"} :
                    /\ k \in DOMAIN out
                    /\ out[k] = IF k \in DOMAIN sent THEN sent[k] ELSE EmptyStr

C19_Witness ==
    /\ op = "get_index_list"
    /\ pc = "returned"
    /\ Len(resp.data.items) = 2
    /\ raw.data.items[1].f = Uniform({"IndexCode", "Exchange"}, StrV(StrAbc))
    /\ raw.data.items[2].f = EmptyDict
    /\ resp.data.items[1].f["Exchange"] = StrV(StrAbc)
    /\ resp.data.items[1].f["IndexName"] = EmptyStr
    /\ resp.data.items[2].f["Exchange"] = EmptyStr

====
